---- MODULE Spec2Model ----
(***************************************************************************)
(* Model of notify.py: one scheduled run loads state.json, polls two npm   *)
(* packages, one GitHub release feed and the OpenAI news feed, records     *)
(* every changed marker, batches the notification lines into one Discord   *)
(* message, posts it in 1900-character chunks and saves the state.         *)
(*                                                                         *)
(* A Python str is modelled as a sequence of one-character strings, so     *)
(* that concatenation, lower-casing, substring search and slicing are      *)
(* computed as the code computes them.  A code point outside ASCII is one  *)
(* element written by its name ("U+1F4E6"), and so is the backquote.       *)
(*                                                                         *)
(* Specifications: Spec, the runs one after another; SpecTwice, with runs  *)
(* that get the answers of the run before; SpecKill, with a process that   *)
(* can be killed inside save_state; SpecStore, the runs on a state.json    *)
(* written before; SpecCat, add_notification and the assembly on any       *)
(* texts; SpecPost, discord_post on contents of any length.                *)
(***************************************************************************)
EXTENDS Integers, Sequences, FiniteSets, TLC

\* ------------------------------------------------------------------------
\* Configuration (notify.py lines 9-21)
\* ------------------------------------------------------------------------

Pkg_codex ==
    <<"@", "o", "p", "e", "n", "a", "i", "/", "c", "o", "d", "e", "x">>

Pkg_claude_code ==
    <<"@", "a", "n", "t", "h", "r", "o", "p", "i", "c", "-", "a", "i", "/",
      "c", "l", "a", "u", "d", "e", "-", "c", "o", "d", "e">>

NPM_PACKAGES == <<Pkg_codex, Pkg_claude_code>>

Owner_openai ==
    <<"o", "p", "e", "n", "a", "i">>

Repo_codex ==
    <<"c", "o", "d", "e", "x">>

Label_codex ==
    <<"o", "p", "e", "n", "a", "i", "/", "c", "o", "d", "e", "x">>

GITHUB_RELEASES ==
    <<[owner |-> Owner_openai, repo |-> Repo_codex, label |-> Label_codex]>>

\* The key of the feed's marker in state["rss"] (line 135).
Key_openai_news ==
    <<"o", "p", "e", "n", "a", "i", "_", "n", "e", "w", "s">>

\* The chunk length of discord_post (line 35).
CHUNK == 1900

\* ------------------------------------------------------------------------
\* String literals of the message formats (lines 115, 128, 139, 147-169)
\* ------------------------------------------------------------------------

Kw_openai ==
    <<"o", "p", "e", "n", "a", "i">>

Kw_anthropic ==
    <<"a", "n", "t", "h", "r", "o", "p", "i", "c">>

Kw_claude ==
    <<"c", "l", "a", "u", "d", "e">>

NpmMsg_a ==
    <<"U+1F4E6", " ", "n", "p", "m", ":", " ", "U+0060">>

NpmMsg_b ==
    <<"U+0060", " ", "U+2192", " ", "*", "*">>

NpmMsg_c ==
    <<"*", "*", "\n", "h", "t", "t", "p", "s", ":", "/", "/", "w", "w", "w",
      ".", "n", "p", "m", "j", "s", ".", "c", "o", "m", "/", "p", "a", "c",
      "k", "a", "g", "e", "/">>

GithubMsg_a ==
    <<"U+1F3F7", "U+FE0F", " ", "G", "i", "t", "H", "u", "b", ":", " ", "U+0060">>

GithubMsg_b ==
    <<"U+0060", " ", "U+2192", " ", "*", "*">>

GithubMsg_c ==
    <<"*", "*", " ", "(">>

GithubMsg_d ==
    <<")", "\n">>

RssMsg_a ==
    <<"U+1F4F0", " ", "N", "e", "w", "s", ":", " ", "*", "*">>

RssMsg_b ==
    <<"*", "*", "\n">>

HeaderOpenAI ==
    <<"U+1F7E6", " ", "*", "*", "O", "p", "e", "n", "A", "I", " ", "U", "p",
      "d", "a", "t", "e", "s", "*", "*">>

HeaderAnthropic ==
    <<"U+1F7E7", " ", "*", "*", "A", "n", "t", "h", "r", "o", "p", "i", "c",
      " ", "U", "p", "d", "a", "t", "e", "s", "*", "*">>

HeaderOther ==
    <<"U+2B1C", " ", "*", "*", "O", "t", "h", "e", "r", " ", "U", "p", "d",
      "a", "t", "e", "s", "*", "*">>

Banner ==
    <<"U+1F6A8", " ", "*", "*", "A", "I", " ", "T", "e", "c", "h", " ", "U",
      "p", "d", "a", "t", "e", "s", "*", "*", "\n", "\n">>

\* ------------------------------------------------------------------------
\* Values the external services are taken to answer with
\* ------------------------------------------------------------------------

Ver_1 ==
    <<"1", ".", "0", ".", "0">>

Ver_2 ==
    <<"1", ".", "0", ".", "1">>

Tag_2 ==
    <<"v", "2", ".", "0">>

Name_2 ==
    <<"V", "e", "r", "s", "i", "o", "n", " ", "2">>

Url_2 ==
    <<"h", "t", "t", "p", "s", ":", "/", "/", "g", "h", "/", "v", "2", ".",
      "0">>

\* The feed has had at most MaxNews different entries as its first one.
MaxNews == 1

Digits == <<"1", "2", "3", "4", "5", "6", "7", "8", "9">>

\* The id of the k-th of them: "id-k".
Entry_id(k) == <<"i", "d", "-", Digits[k]>>

Entry_title ==
    <<"T", "i", "t", "l", "e">>

Entry_link ==
    <<"h", "t", "t", "p", "s", ":", "/", "/", "o", "/", "1">>

\* The feed title that makes the message longer than one chunk.
LongTitle == [n \in 1..CHUNK |-> "x"]

\* ------------------------------------------------------------------------
\* Python values: Optional[str], dict, str operations
\* ------------------------------------------------------------------------

\* Optional[str]: None, or a str.
None == [some |-> FALSE, val |-> <<>>]

Some(v) == [some |-> TRUE, val |-> v]

\* Mutant of Truthy: the fetched value is used without the check.
Truthy_unchecked(o) == TRUE

\* Mutant of Truthy: only None is falsy.
Truthy_present(o) == o.some

\* Truthiness of an Optional[str]: None and "" are falsy.
Truthy(o) == o.some /\ o.val # <<>>

\* {}
EmptyDict == [x \in {} |-> <<>>]

\* d.get(key): None when the key is missing.
DictGet(d, key) == IF key \in DOMAIN d THEN Some(d[key]) ELSE None

\* d.get(key, {}) for the top-level mappings.
DictGetDict(d, key) == IF key \in DOMAIN d THEN d[key] ELSE EmptyDict

\* d[key] = v
DictPut(d, key, v) ==
    [x \in (DOMAIN d) \cup {key} |-> IF x = key THEN v ELSE d[x]]

UpperCase ==
    <<"A", "B", "C", "D", "E", "F", "G", "H", "I", "J", "K", "L", "M",
      "N", "O", "P", "Q", "R", "S", "T", "U", "V", "W", "X", "Y", "Z">>

LowerCase ==
    <<"a", "b", "c", "d", "e", "f", "g", "h", "i", "j", "k", "l", "m",
      "n", "o", "p", "q", "r", "s", "t", "u", "v", "w", "x", "y", "z">>

UpperSet == {UpperCase[n] : n \in 1..Len(UpperCase)}

LowerChar(c) ==
    IF c \in UpperSet
    THEN LowerCase[CHOOSE n \in 1..Len(UpperCase) : UpperCase[n] = c]
    ELSE c

\* str.lower()
Lower(s) == <<>> \o [n \in 1..Len(s) |-> LowerChar(s[n])]

\* sub in s
Contains(s, sub) ==
    \E n \in 1..(Len(s) - Len(sub) + 1) :
        s[n] = sub[1] /\ SubSeq(s, n, n + Len(sub) - 1) = sub

\* sep.join(blocks)
RECURSIVE Join(_, _)
Join(blocks, sep) ==
    IF blocks = <<>> THEN <<>>
    ELSE IF Len(blocks) = 1 THEN blocks[1]
    ELSE blocks[1] \o sep \o Join(Tail(blocks), sep)

Min(a, b) == IF a < b THEN a ELSE b

\* ------------------------------------------------------------------------
\* State store (lines 23-31)
\* ------------------------------------------------------------------------

\* state.json is absent, or holds a text: a JSON document (ok), or
\* something json.load raises on.  The text of a document keeps the
\* structure of the document and holds every key and marker as its JSON
\* string literal (without the quotes around it).
NoFile == [exists |-> FALSE, ok |-> FALSE, text |-> EmptyDict]

FileOf(text) == [exists |-> TRUE, ok |-> TRUE, text |-> text]

\* What open(STATE_FILE, "w") leaves before json.dump has written: an
\* empty file, on which json.load raises.
TruncatedFile == [exists |-> TRUE, ok |-> FALSE, text |-> EmptyDict]

Skeleton == [c \in {"npm", "github", "rss"} |-> EmptyDict]

\* Mutant of EscapeChar: the backslash is written as it is.
EscapeChar_plain(c) ==
    CASE c = "\"" -> <<"\\", "\"">>
      [] c = "\n" -> <<"\\", "n">>
      [] c = "\t" -> <<"\\", "t">>
      [] OTHER -> <<c>>

\* json.dump, ensure_ascii=False: what one character of a str becomes.
EscapeChar(c) ==
    CASE c = "\\" -> <<"\\", "\\">>
      [] c = "\"" -> <<"\\", "\"">>
      [] c = "\n" -> <<"\\", "n">>
      [] c = "\t" -> <<"\\", "t">>
      [] OTHER -> <<c>>

\* json.dump of a str.
RECURSIVE encode_string(_)
encode_string(s) ==
    IF s = <<>> THEN <<>>
    ELSE EscapeChar(Head(s)) \o encode_string(Tail(s))

\* json.load: the character an escape letter stands for.
UnescapeChar(c) ==
    CASE c = "n" -> "\n"
      [] c = "t" -> "\t"
      [] OTHER -> c

\* json.load of a string literal.
RECURSIVE decode_string(_)
decode_string(t) ==
    IF t = <<>> THEN <<>>
    ELSE IF Head(t) = "\\" /\ Len(t) >= 2
         THEN <<UnescapeChar(t[2])>> \o decode_string(SubSeq(t, 3, Len(t)))
         ELSE <<Head(t)>> \o decode_string(Tail(t))

\* json.dump of a mapping from str to str.
json_dump_dict(d) ==
    [k \in {encode_string(x) : x \in DOMAIN d} |->
        encode_string(d[CHOOSE x \in DOMAIN d : encode_string(x) = k])]

\* json.load of a mapping from str to str.
json_load_dict(t) ==
    [k \in {decode_string(x) : x \in DOMAIN t} |->
        decode_string(t[CHOOSE x \in DOMAIN t : decode_string(x) = k])]

\* Lines 24-27; on a file that is not ok json.load raises instead (the
\* caller's step MainLoadRaises).
load_state(f) ==
    IF ~f.exists THEN Skeleton
    ELSE [c \in DOMAIN f.text |-> json_load_dict(f.text[c])]

\* Lines 30-31, once json.dump has written the whole document.
save_state(st) == FileOf([c \in DOMAIN st |-> json_dump_dict(st[c])])

\* ------------------------------------------------------------------------
\* Fetchers (lines 41-82).  A response is what the service answers: exc is
\* any exception raised by the request or the parsing of its answer.
\* ------------------------------------------------------------------------

NpmResponses ==
    { [exc |-> TRUE,  status |-> 0,   latest |-> None],
      [exc |-> FALSE, status |-> 404, latest |-> None],
      [exc |-> FALSE, status |-> 200, latest |-> None],
      [exc |-> FALSE, status |-> 200, latest |-> Some(<<>>)],
      [exc |-> FALSE, status |-> 200, latest |-> Some(Ver_1)],
      [exc |-> FALSE, status |-> 200, latest |-> Some(Ver_2)] }

get_npm_latest(resp) ==
    IF resp.exc THEN None
    ELSE IF resp.status # 200 THEN None
    ELSE resp.latest

NoRelease == [some |-> FALSE, tag |-> <<>>, name |-> <<>>, url |-> <<>>]

GithubResponses ==
    { [exc |-> TRUE,  status |-> 0,   tag_name |-> None, name |-> None,
       html_url |-> None],
      [exc |-> FALSE, status |-> 404, tag_name |-> None, name |-> None,
       html_url |-> None],
      [exc |-> FALSE, status |-> 200, tag_name |-> None, name |-> None,
       html_url |-> None],
      [exc |-> FALSE, status |-> 200, tag_name |-> Some(Tag_2),
       name |-> None, html_url |-> Some(Url_2)],
      [exc |-> FALSE, status |-> 200, tag_name |-> Some(Tag_2),
       name |-> Some(Name_2), html_url |-> Some(Url_2)] }

\* data.get(key, "")
GetOrEmpty(o) == IF o.some THEN o.val ELSE <<>>

get_github_latest_release(resp) ==
    IF resp.exc THEN NoRelease
    ELSE IF resp.status # 200 THEN NoRelease
    ELSE [some |-> TRUE,
          tag  |-> GetOrEmpty(resp.tag_name),
          name |-> IF GetOrEmpty(resp.name) # <<>>
                   THEN GetOrEmpty(resp.name)
                   ELSE GetOrEmpty(resp.tag_name),
          url  |-> GetOrEmpty(resp.html_url)]

NoEntry == [some |-> FALSE, title |-> <<>>, link |-> <<>>, id |-> <<>>]

\* entries is the number of entries of the parsed feed; title, link and id
\* are the attributes of its first entry.
RssResponses ==
    { [exc |-> TRUE,  entries |-> 0, title |-> None, link |-> None,
       id |-> None],
      [exc |-> FALSE, entries |-> 0, title |-> None, link |-> None,
       id |-> None],
      [exc |-> FALSE, entries |-> 1, title |-> Some(Entry_title),
       link |-> None, id |-> None],
      [exc |-> FALSE, entries |-> 1, title |-> Some(LongTitle),
       link |-> Some(Entry_link), id |-> Some(Entry_id(1))] }
    \cup { [exc |-> FALSE, entries |-> 1, title |-> Some(Entry_title),
             link |-> Some(Entry_link), id |-> Some(Entry_id(k))] :
           k \in 1..MaxNews }

get_openai_rss_latest_id(resp) ==
    IF resp.exc THEN NoEntry
    ELSE IF resp.entries = 0 THEN NoEntry
    ELSE [some  |-> TRUE,
          title |-> GetOrEmpty(resp.title),
          link  |-> GetOrEmpty(resp.link),
          id    |-> IF resp.id.some THEN resp.id.val
                    ELSE GetOrEmpty(resp.link)]

\* ------------------------------------------------------------------------
\* Categorizer (lines 93-103)
\* ------------------------------------------------------------------------

NoNotifications == [OpenAI |-> <<>>, Anthropic |-> <<>>, Other |-> <<>>]

\* Mutant of add_notification: the line is not kept.
add_notification_dropped(n, text, source_name) == n

\* Mutant of add_notification: the line is put first in its bucket.
add_notification_first(n, text, source_name) ==
    LET lower_text == Lower(text \o source_name) IN
    IF Contains(lower_text, Kw_openai)
    THEN [n EXCEPT !.OpenAI = <<text>> \o @]
    ELSE IF Contains(lower_text, Kw_anthropic)
            \/ Contains(lower_text, Kw_claude)
    THEN [n EXCEPT !.Anthropic = <<text>> \o @]
    ELSE [n EXCEPT !.Other = <<text>> \o @]

\* Mutant of add_notification: the keywords are looked up without lower().
add_notification_cased(n, text, source_name) ==
    LET lower_text == text \o source_name IN
    IF Contains(lower_text, Kw_openai)
    THEN [n EXCEPT !.OpenAI = Append(@, text)]
    ELSE IF Contains(lower_text, Kw_anthropic)
            \/ Contains(lower_text, Kw_claude)
    THEN [n EXCEPT !.Anthropic = Append(@, text)]
    ELSE [n EXCEPT !.Other = Append(@, text)]

add_notification(n, text, source_name) ==
    LET lower_text == Lower(text \o source_name) IN
    IF Contains(lower_text, Kw_openai)
    THEN [n EXCEPT !.OpenAI = Append(@, text)]
    ELSE IF Contains(lower_text, Kw_anthropic)
            \/ Contains(lower_text, Kw_claude)
    THEN [n EXCEPT !.Anthropic = Append(@, text)]
    ELSE [n EXCEPT !.Other = Append(@, text)]

\* ------------------------------------------------------------------------
\* Change detector (lines 105-140)
\* ------------------------------------------------------------------------

NpmMsg(pkg, latest) ==
    NpmMsg_a \o pkg \o NpmMsg_b \o latest \o NpmMsg_c \o pkg

GithubMsg(label, rel) ==
    GithubMsg_a \o label \o GithubMsg_b \o rel.name \o GithubMsg_c
        \o rel.tag \o GithubMsg_d \o rel.url

RssMsg(latest) == RssMsg_a \o latest.title \o RssMsg_b \o latest.link

\* prev != latest (lines 112, 125, 136)
Differs(prev, marker) == prev # Some(marker)

\* Mutant of StoreMarker: the assignment is left out.
StoreMarker_forgotten(st, category, key, marker) == st

\* state[category][key] = marker, creating the category (lines 113-114)
StoreMarker(st, category, key, marker) ==
    DictPut(st, category, DictPut(DictGetDict(st, category), key, marker))

Same(st, n) == [state |-> st, notifications |-> n]

\* Mutant of check_npm: an absent answer drops the lines found so far.
check_npm_clobber(st, n, pkg, latest) ==
    IF ~Truthy(latest) THEN Same(st, NoNotifications)
    ELSE IF Differs(DictGet(DictGetDict(st, "npm"), pkg), latest.val)
    THEN [state |-> StoreMarker(st, "npm", pkg, latest.val),
          notifications |->
              add_notification(n, NpmMsg(pkg, latest.val), pkg)]
    ELSE Same(st, n)

\* The body of the npm loop (lines 108-116) for the answer latest.
check_npm(st, n, pkg, latest) ==
    IF ~Truthy(latest) THEN Same(st, n)
    ELSE IF Differs(DictGet(DictGetDict(st, "npm"), pkg), latest.val)
    THEN [state |-> StoreMarker(st, "npm", pkg, latest.val),
          notifications |->
              add_notification(n, NpmMsg(pkg, latest.val), pkg)]
    ELSE Same(st, n)

\* The body of the release loop (lines 121-129) for the answer rel.
check_github(st, n, label, rel) ==
    IF ~rel.some \/ rel.tag = <<>> THEN Same(st, n)
    ELSE IF Differs(DictGet(DictGetDict(st, "github"), label), rel.tag)
    THEN [state |-> StoreMarker(st, "github", label, rel.tag),
          notifications |->
              add_notification(n, GithubMsg(label, rel), label)]
    ELSE Same(st, n)

\* Lines 133-140 for the answer latest.
check_rss(st, n, latest) ==
    IF latest.some /\ latest.id # <<>>
    THEN IF Differs(DictGet(DictGetDict(st, "rss"), Key_openai_news),
                    latest.id)
         THEN [state |-> StoreMarker(st, "rss", Key_openai_news, latest.id),
               notifications |->
                   add_notification(n, RssMsg(latest), Kw_openai)]
         ELSE Same(st, n)
    ELSE Same(st, n)

\* ------------------------------------------------------------------------
\* Message assembler (lines 142-169) and sink (lines 33-39)
\* ------------------------------------------------------------------------

\* Lines 143-160: a header, the bodies and a spacer per non-empty bucket.
final_blocks(n) ==
    (IF n.OpenAI # <<>>
     THEN <<HeaderOpenAI>> \o n.OpenAI \o << <<>> >> ELSE <<>>)
    \o (IF n.Anthropic # <<>>
        THEN <<HeaderAnthropic>> \o n.Anthropic \o << <<>> >> ELSE <<>>)
    \o (IF n.Other # <<>>
        THEN <<HeaderOther>> \o n.Other ELSE <<>>)

\* Mutant of PopSpacer: the trailing spacer is kept.
PopSpacer_kept(blocks) == blocks

\* Line 164: drop a trailing spacer.
PopSpacer(blocks) ==
    IF blocks # <<>> /\ blocks[Len(blocks)] = <<>>
    THEN SubSeq(blocks, 1, Len(blocks) - 1)
    ELSE blocks

\* Mutant of Message: the content is the blocks alone.
Message_bare(blocks) == Join(PopSpacer(blocks), <<"\n">>)

\* Lines 168-169: the content handed to discord_post.
Message(blocks) == Banner \o Join(PopSpacer(blocks), <<"\n">>)

\* Mutant of discord_chunks: every chunk but the first starts one
\* character early.
discord_chunks_overlap(content) ==
    [c \in 1..((Len(content) + CHUNK - 1) \div CHUNK) |->
        SubSeq(content, IF c = 1 THEN 1 ELSE (c - 1) * CHUNK,
               Min(c * CHUNK, Len(content)))]

\* Line 35: content[i:i+1900] for i in range(0, len(content), 1900).
discord_chunks(content) ==
    [c \in 1..((Len(content) + CHUNK - 1) \div CHUNK) |->
        SubSeq(content, (c - 1) * CHUNK + 1, Min(c * CHUNK, Len(content)))]

\* ------------------------------------------------------------------------
\* The run: main() (lines 84-173), one run after another
\* ------------------------------------------------------------------------

VARIABLES
    file,           \* state.json
    webhook,        \* whether DISCORD_WEBHOOK_URL is set, for this run
    pc,             \* where main() stands
    i,              \* the index of the loop at pc
    state,          \* the state dict of main
    notifications,  \* the notifications dict of main
    blocks,         \* final_blocks of main, once assembled
    content,        \* the content discord_post was called with
    chunks,         \* discord_post: the chunks not posted yet
    sink,           \* the chunks Discord accepted in this run
    fetched,        \* what each fetcher returned in this run, in call order
    loaded,         \* what load_state returned in this run
    saves,          \* the calls of save_state in this run
    replay          \* the run before (what was fetched, what it held and
                    \* what Discord accepted, how it ended) when the
                    \* services answer this run as they answered that one

vars ==
    <<file, webhook, pc, i, state, notifications, blocks, content, chunks,
      sink, fetched, loaded, saves, replay>>

NoFetched == [npm |-> <<>>, github |-> <<>>, rss |-> <<>>]

NoReplay ==
    [on |-> FALSE, fetched |-> NoFetched, notifications |-> NoNotifications,
     sink |-> <<>>, ended |-> "none"]

\* state.json before the first run: absent, or left unreadable.
InitFiles == {NoFile, TruncatedFile}

Fresh ==
    /\ pc = "idle"
    /\ webhook = FALSE
    /\ i = 1
    /\ state = EmptyDict
    /\ notifications = NoNotifications
    /\ blocks = <<>>
    /\ content = <<>>
    /\ chunks = <<>>
    /\ sink = <<>>
    /\ fetched = NoFetched
    /\ loaded = EmptyDict
    /\ saves = 0

Init ==
    /\ file \in InitFiles
    /\ replay = NoReplay
    /\ Fresh

\* A new process: nothing of the run before is left but state.json.
NewProcess ==
    /\ pc' = "idle"
    /\ webhook' = FALSE
    /\ i' = 1
    /\ state' = EmptyDict
    /\ notifications' = NoNotifications
    /\ blocks' = <<>>
    /\ content' = <<>>
    /\ chunks' = <<>>
    /\ sink' = <<>>
    /\ fetched' = NoFetched
    /\ loaded' = EmptyDict
    /\ saves' = 0
    /\ UNCHANGED file

\* Lines 85-90: without the webhook main prints a warning and returns.
MainNoWebhook ==
    /\ pc = "idle"
    /\ webhook' = FALSE
    /\ pc' = "done"
    /\ UNCHANGED <<file, i, state, notifications, blocks, content, chunks,
                   sink, fetched, loaded, saves, replay>>

\* Lines 85-93 with the webhook set.
MainLoad ==
    /\ pc = "idle"
    /\ file.exists => file.ok
    /\ webhook' = TRUE
    /\ state' = load_state(file)
    /\ loaded' = load_state(file)
    /\ notifications' = NoNotifications
    /\ pc' = "npm"
    /\ i' = 1
    /\ UNCHANGED <<file, blocks, content, chunks, sink, fetched, saves,
                   replay>>

\* Lines 85-92 with the webhook set, on a file json.load raises on:
\* nothing catches the exception, so the run ends there.
MainLoadRaises ==
    /\ pc = "idle"
    /\ file.exists /\ ~file.ok
    /\ webhook' = TRUE
    /\ pc' = "raised"
    /\ UNCHANGED <<file, i, state, notifications, blocks, content, chunks,
                   sink, fetched, loaded, saves, replay>>

\* Lines 107-116: one iteration of the npm loop.
CheckNpm ==
    /\ pc = "npm"
    /\ \E resp \in NpmResponses :
        LET latest == get_npm_latest(resp)
            r == check_npm(state, notifications, NPM_PACKAGES[i], latest)
        IN /\ replay.on => latest = replay.fetched.npm[i]
           /\ state' = r.state
           /\ notifications' = r.notifications
           /\ fetched' = [fetched EXCEPT !.npm = Append(@, latest)]
    /\ IF i < Len(NPM_PACKAGES)
       THEN i' = i + 1 /\ pc' = "npm"
       ELSE i' = 1 /\ pc' = "github"
    /\ UNCHANGED <<file, webhook, blocks, content, chunks, sink, loaded,
                   saves, replay>>

\* Lines 120-129: one iteration of the release loop.
CheckGithub ==
    /\ pc = "github"
    /\ \E resp \in GithubResponses :
        LET rel == get_github_latest_release(resp)
            r == check_github(state, notifications,
                              GITHUB_RELEASES[i].label, rel)
        IN /\ replay.on => rel = replay.fetched.github[i]
           /\ state' = r.state
           /\ notifications' = r.notifications
           /\ fetched' = [fetched EXCEPT !.github = Append(@, rel)]
    /\ IF i < Len(GITHUB_RELEASES)
       THEN i' = i + 1 /\ pc' = "github"
       ELSE i' = 1 /\ pc' = "rss"
    /\ UNCHANGED <<file, webhook, blocks, content, chunks, sink, loaded,
                   saves, replay>>

\* Lines 133-140.
CheckRss ==
    /\ pc = "rss"
    /\ \E resp \in RssResponses :
        LET latest == get_openai_rss_latest_id(resp)
            r == check_rss(state, notifications, latest)
        IN /\ replay.on => latest = replay.fetched.rss[1]
           /\ state' = r.state
           /\ notifications' = r.notifications
           /\ fetched' = [fetched EXCEPT !.rss = Append(@, latest)]
    /\ pc' = "assemble"
    /\ UNCHANGED <<file, webhook, i, blocks, content, chunks, sink, loaded,
                   saves, replay>>

\* Lines 143-171, up to the chunks discord_post cuts (line 35).
Assemble ==
    /\ pc = "assemble"
    /\ LET built == final_blocks(notifications) IN
       IF built # <<>>
       THEN /\ blocks' = PopSpacer(built)
            /\ content' = Message(built)
            /\ chunks' = discord_chunks(content')
            /\ pc' = IF chunks' = <<>> THEN "save" ELSE "post"
       ELSE /\ blocks' = <<>>
            /\ content' = <<>>
            /\ chunks' = <<>>
            /\ pc' = "save"
    /\ UNCHANGED <<file, webhook, i, state, notifications, sink, fetched,
                   loaded, saves, replay>>

\* Lines 37-38: Discord accepts the chunk.
PostOk ==
    /\ pc = "post"
    /\ sink' = Append(sink, Head(chunks))
    /\ chunks' = Tail(chunks)
    /\ pc' = IF Tail(chunks) = <<>> THEN "save" ELSE "post"
    /\ UNCHANGED <<file, webhook, i, state, notifications, blocks, content,
                   fetched, loaded, saves, replay>>

\* Mutant of PostFail: the failure is caught and main goes on to line 173.
PostFail_caught ==
    /\ pc = "post"
    /\ pc' = "save"
    /\ UNCHANGED <<file, webhook, i, state, notifications, blocks, content,
                   chunks, sink, fetched, loaded, saves, replay>>

\* Mutant of PostFail: the chunks Discord accepted before are taken back.
PostFail_rollback ==
    /\ pc = "post"
    /\ pc' = "failed"
    /\ sink' = <<>>
    /\ UNCHANGED <<file, webhook, i, state, notifications, blocks, content,
                   chunks, fetched, loaded, saves, replay>>

\* Lines 37-38: the request fails or raise_for_status raises; nothing in
\* main catches it, so the run ends there.
PostFail ==
    /\ pc = "post"
    /\ pc' = "failed"
    /\ UNCHANGED <<file, webhook, i, state, notifications, blocks, content,
                   chunks, sink, fetched, loaded, saves, replay>>

\* Line 173, the process living through it.
Save ==
    /\ pc = "save"
    /\ file' = save_state(state)
    /\ saves' = saves + 1
    /\ pc' = "done"
    /\ UNCHANGED <<webhook, i, state, notifications, blocks, content,
                   chunks, sink, fetched, loaded, replay>>

\* Line 30: open(STATE_FILE, "w") creates or truncates state.json.
SaveOpen ==
    /\ pc = "save"
    /\ file' = TruncatedFile
    /\ saves' = saves + 1
    /\ pc' = "dump"
    /\ UNCHANGED <<webhook, i, state, notifications, blocks, content,
                   chunks, sink, fetched, loaded, replay>>

\* Line 31 and the end of the with block: the document is written out.
SaveDump ==
    /\ pc = "dump"
    /\ file' = save_state(state)
    /\ pc' = "done"
    /\ UNCHANGED <<webhook, i, state, notifications, blocks, content,
                   chunks, sink, fetched, loaded, saves, replay>>

\* The process is killed (power loss, SIGKILL, the runner's timeout) while
\* it is in save_state.
Kill ==
    /\ pc \in {"save", "dump"}
    /\ pc' = "killed"
    /\ UNCHANGED <<file, webhook, i, state, notifications, blocks, content,
                   chunks, sink, fetched, loaded, saves, replay>>

\* The scheduler starts the next run; the services answer anything.
NextRun ==
    /\ pc \in {"done", "failed", "raised", "killed"}
    /\ NewProcess
    /\ replay' = NoReplay

\* The scheduler starts the next run with no change in the real world:
\* every fetcher returns what it returned in the run before.
NextRunUnchanged ==
    /\ pc \in {"done", "failed"}
    /\ webhook
    /\ NewProcess
    /\ replay' = [on |-> TRUE, fetched |-> fetched,
                   notifications |-> notifications, sink |-> sink,
                   ended |-> pc]

Next ==
    \/ MainNoWebhook
    \/ MainLoad
    \/ MainLoadRaises
    \/ CheckNpm
    \/ CheckGithub
    \/ CheckRss
    \/ Assemble
    \/ PostOk
    \/ PostFail
    \/ Save
    \/ NextRun

Spec == Init /\ [][Next]_vars

NextTwice == Next \/ NextRunUnchanged

SpecTwice == Init /\ [][NextTwice]_vars

\* The runs with a process that can be killed while it saves: line 173 is
\* the two steps of lines 30 and 31.
NextKill ==
    \/ MainNoWebhook
    \/ MainLoad
    \/ MainLoadRaises
    \/ CheckNpm
    \/ CheckGithub
    \/ CheckRss
    \/ Assemble
    \/ PostOk
    \/ PostFail
    \/ SaveOpen
    \/ SaveDump
    \/ Kill
    \/ NextRun

SpecKill == Init /\ [][NextKill]_vars

\* ------------------------------------------------------------------------
\* add_notification (lines 96-103) and the assembly (lines 143-169) on any
\* texts and source names
\* ------------------------------------------------------------------------

Text_plain ==
    <<"U", "p", "d", "a", "t", "e">>

Text_OpenAI ==
    <<"O", "p", "e", "n", "A", "I", " ", "n", "e", "w", "s">>

Text_CLAUDE ==
    <<"C", "L", "A", "U", "D", "E", " ", "3">>

Text_both ==
    <<"C", "l", "a", "u", "d", "e", " ", "a", "n", "d", " ", "O", "p", "e",
      "n", "A", "I">>

Text_open ==
    <<"o", "p", "e", "n">>

Name_misc ==
    <<"m", "i", "s", "c">>

Name_AI ==
    <<"A", "I">>

Name_Anthropic ==
    <<"A", "n", "t", "h", "r", "o", "p", "i", "c">>

\* The texts and the source names add_notification is called with.
CatTexts == {Text_plain, Text_OpenAI, Text_CLAUDE, Text_both, Text_open}

CatNames == {Name_misc, Name_AI, Name_Anthropic, Label_codex}

\* The most lines the buckets are filled with.
MaxLines == 3

InitCat ==
    /\ file = NoFile
    /\ replay = NoReplay
    /\ pc = "categorize"
    /\ webhook = TRUE
    /\ i = 1
    /\ state = Skeleton
    /\ notifications = NoNotifications
    /\ blocks = <<>>
    /\ content = <<>>
    /\ chunks = <<>>
    /\ sink = <<>>
    /\ fetched = NoFetched
    /\ loaded = Skeleton
    /\ saves = 0

\* One call of add_notification.
Categorize ==
    /\ pc = "categorize"
    /\ Len(notifications.OpenAI) + Len(notifications.Anthropic)
         + Len(notifications.Other) < MaxLines
    /\ \E text \in CatTexts, source_name \in CatNames :
        notifications' = add_notification(notifications, text, source_name)
    /\ UNCHANGED <<file, webhook, pc, i, state, blocks, content, chunks,
                   sink, fetched, loaded, saves, replay>>

\* The last source is processed: main goes on to line 143.
CategorizeDone ==
    /\ pc = "categorize"
    /\ pc' = "assemble"
    /\ UNCHANGED <<file, webhook, i, state, notifications, blocks, content,
                   chunks, sink, fetched, loaded, saves, replay>>

NextCat ==
    \/ Categorize
    \/ CategorizeDone
    \/ Assemble

SpecCat == InitCat /\ [][NextCat]_vars

\* ------------------------------------------------------------------------
\* discord_post (lines 33-39) on contents of any length
\* ------------------------------------------------------------------------

\* The longest content, in hundreds of characters.
MaxBody == 50

\* A content of len characters that repeats with the period 7, so that no
\* two chunks of it are equal.
Body(len) == <<>> \o [n \in 1..len |-> LowerCase[(n % 7) + 1]]

BodyLens ==
    {100 * k : k \in 0..MaxBody}
    \cup {CHUNK - 1, CHUNK, CHUNK + 1, 2 * CHUNK, 2 * CHUNK + 1}

InitPost ==
    /\ file = NoFile
    /\ replay = NoReplay
    /\ pc = "cut"
    /\ webhook = TRUE
    /\ i = 1
    /\ state = Skeleton
    /\ notifications = NoNotifications
    /\ blocks = <<>>
    /\ content \in {Body(len) : len \in BodyLens}
    /\ chunks = <<>>
    /\ sink = <<>>
    /\ fetched = NoFetched
    /\ loaded = Skeleton
    /\ saves = 0

\* Line 35: discord_post cuts its content.
Cut ==
    /\ pc = "cut"
    /\ chunks' = discord_chunks(content)
    /\ pc' = IF chunks' = <<>> THEN "save" ELSE "post"
    /\ UNCHANGED <<file, webhook, i, state, notifications, blocks, content,
                   sink, fetched, loaded, saves, replay>>

NextPost ==
    \/ Cut
    \/ PostOk
    \/ PostFail

SpecPost == InitPost /\ [][NextPost]_vars

\* ------------------------------------------------------------------------
\* The runs on a state.json written before, whose keys and markers hold
\* characters that json.dump escapes
\* ------------------------------------------------------------------------

\* Markers as they stand in the file, and as load_state returns them.
Literal_backslash == <<"a", "\\", "\\", "n">>

Marker_backslash == <<"a", "\\", "n">>

Literal_quote == <<"v", "\\", "\"", "1">>

Marker_quote == <<"v", "\"", "1">>

Literal_newline == <<"x", "\\", "n", "y">>

Marker_newline == <<"x", "\n", "y">>

\* A key of a package that is not configured any more.
Literal_stale == <<"o", "l", "d", "\\", "t", "p", "k", "g">>

Key_stale == <<"o", "l", "d", "\t", "p", "k", "g">>

\* A state.json with exactly the three mappings.
StoredFile ==
    FileOf([c \in {"npm", "github", "rss"} |->
        CASE c = "npm" ->
                [k \in {Pkg_codex, Literal_stale} |->
                    IF k = Pkg_codex THEN Literal_backslash ELSE Ver_1]
          [] c = "github" -> [k \in {Label_codex} |-> Literal_quote]
          [] c = "rss" -> [k \in {Key_openai_news} |-> Literal_newline]])

\* state.json before the first run: absent, or with the three mappings.
StoreFiles == {NoFile, StoredFile}

InitStore ==
    /\ file \in StoreFiles
    /\ replay = NoReplay
    /\ Fresh

\* state.json stays readable, so json.load never raises.
NextStore ==
    \/ MainNoWebhook
    \/ MainLoad
    \/ CheckNpm
    \/ CheckGithub
    \/ CheckRss
    \/ Assemble
    \/ PostOk
    \/ PostFail
    \/ Save
    \/ NextRun

SpecStore == InitStore /\ [][NextStore]_vars

\* ------------------------------------------------------------------------
\* Views of a run used by the properties
\* ------------------------------------------------------------------------

\* state[category].get(key) of a state dict.
MarkerIn(st, category, key) == DictGet(DictGetDict(st, category), key)

StartsWith(s, pre) == Len(s) >= Len(pre) /\ SubSeq(s, 1, Len(pre)) = pre

\* Every notification line of the run, bucket after bucket.
AllLines ==
    notifications.OpenAI \o notifications.Anthropic \o notifications.Other

\* The number of lines of the run that start with pre.
CountLines(pre) ==
    Cardinality({n \in 1..Len(AllLines) : StartsWith(AllLines[n], pre)})

HasLine(text) == \E n \in 1..Len(AllLines) : AllLines[n] = text

\* What the lines of one source start with, whatever its marker.
NpmPrefix(p) == NpmMsg_a \o NPM_PACKAGES[p] \o NpmMsg_b

GithubPrefix(g) == GithubMsg_a \o GITHUB_RELEASES[g].label \o GithubMsg_b

RssPrefix == RssMsg_a

\* The run has processed every source.
Detected == Len(fetched.rss) = 1

\* ------------------------------------------------------------------------
\* Properties
\* ------------------------------------------------------------------------

\* C1 (as stated): for every source processed in a run, if the fetcher
\* returned a marker (empty or not) and no equal marker was loaded for the
\* source, the run holds exactly one notification line for the source and
\* the in-memory marker of the source is the fetched one.
C1_AnyMarkerNotifies ==
    /\ \A p \in 1..Len(fetched.npm) :
        LET m == fetched.npm[p] IN
        (m.some /\ MarkerIn(loaded, "npm", NPM_PACKAGES[p]) # m)
            => /\ CountLines(NpmPrefix(p)) = 1
               /\ MarkerIn(state, "npm", NPM_PACKAGES[p]) = m
    /\ \A g \in 1..Len(fetched.github) :
        LET rel == fetched.github[g] IN
        (rel.some /\ MarkerIn(loaded, "github", GITHUB_RELEASES[g].label)
                        # Some(rel.tag))
            => /\ CountLines(GithubPrefix(g)) = 1
               /\ MarkerIn(state, "github", GITHUB_RELEASES[g].label)
                      = Some(rel.tag)
    /\ \A r \in 1..Len(fetched.rss) :
        LET latest == fetched.rss[r] IN
        (latest.some /\ MarkerIn(loaded, "rss", Key_openai_news)
                           # Some(latest.id))
            => /\ CountLines(RssPrefix) = 1
               /\ MarkerIn(state, "rss", Key_openai_news) = Some(latest.id)

\* C1 (amended): for every source processed in a run, if the fetcher
\* returned a non-empty marker and no equal marker was loaded for the
\* source, the run holds exactly one notification line for the source, that
\* line is the formatted body of the fetched result, and the in-memory
\* marker of the source is the fetched one.
C1_NonEmptyMarkerNotifies ==
    /\ \A p \in 1..Len(fetched.npm) :
        LET m == fetched.npm[p] IN
        (m.some /\ m.val # <<>>
              /\ MarkerIn(loaded, "npm", NPM_PACKAGES[p]) # m)
            => /\ CountLines(NpmPrefix(p)) = 1
               /\ HasLine(NpmMsg(NPM_PACKAGES[p], m.val))
               /\ MarkerIn(state, "npm", NPM_PACKAGES[p]) = m
    /\ \A g \in 1..Len(fetched.github) :
        LET rel == fetched.github[g] IN
        (rel.some /\ rel.tag # <<>>
              /\ MarkerIn(loaded, "github", GITHUB_RELEASES[g].label)
                     # Some(rel.tag))
            => /\ CountLines(GithubPrefix(g)) = 1
               /\ HasLine(GithubMsg(GITHUB_RELEASES[g].label, rel))
               /\ MarkerIn(state, "github", GITHUB_RELEASES[g].label)
                      = Some(rel.tag)
    /\ \A r \in 1..Len(fetched.rss) :
        LET latest == fetched.rss[r] IN
        (latest.some /\ latest.id # <<>>
              /\ MarkerIn(loaded, "rss", Key_openai_news) # Some(latest.id))
            => /\ CountLines(RssPrefix) = 1
               /\ HasLine(RssMsg(latest))
               /\ MarkerIn(state, "rss", Key_openai_news) = Some(latest.id)

\* A finished run that loaded 1.0.0 for @openai/codex, fetched 1.0.1 and
\* found the release v2.0 it had no marker for.
C1_Witness ==
    /\ pc = "done"
    /\ Detected
    /\ MarkerIn(loaded, "npm", Pkg_codex) = Some(Ver_1)
    /\ fetched.npm[1] = Some(Ver_2)
    /\ MarkerIn(state, "npm", Pkg_codex) = Some(Ver_2)
    /\ HasLine(NpmMsg(Pkg_codex, Ver_2))
    /\ MarkerIn(loaded, "github", Label_codex) = None
    /\ fetched.github[1].tag = Tag_2
    /\ MarkerIn(state, "github", Label_codex) = Some(Tag_2)

\* C2: for every source processed in a run, if the fetcher returned absent
\* the in-memory marker of the source is the loaded one (missing if it was
\* missing) and the run holds no notification line for the source.
C2_AbsentLeavesSourceAlone ==
    /\ \A p \in 1..Len(fetched.npm) :
        ~fetched.npm[p].some
            => /\ MarkerIn(state, "npm", NPM_PACKAGES[p])
                      = MarkerIn(loaded, "npm", NPM_PACKAGES[p])
               /\ CountLines(NpmPrefix(p)) = 0
    /\ \A g \in 1..Len(fetched.github) :
        ~fetched.github[g].some
            => /\ MarkerIn(state, "github", GITHUB_RELEASES[g].label)
                      = MarkerIn(loaded, "github", GITHUB_RELEASES[g].label)
               /\ CountLines(GithubPrefix(g)) = 0
    /\ \A r \in 1..Len(fetched.rss) :
        ~fetched.rss[r].some
            => /\ MarkerIn(state, "rss", Key_openai_news)
                      = MarkerIn(loaded, "rss", Key_openai_news)
               /\ CountLines(RssPrefix) = 0

\* A finished run in which the fetch of @openai/codex was absent while
\* 1.0.0 was stored for it, the feed was absent with nothing stored for it,
\* and another source changed.
C2_Witness ==
    /\ pc = "done"
    /\ Detected
    /\ ~fetched.npm[1].some
    /\ MarkerIn(loaded, "npm", Pkg_codex) = Some(Ver_1)
    /\ MarkerIn(state, "npm", Pkg_codex) = Some(Ver_1)
    /\ ~fetched.rss[1].some
    /\ MarkerIn(state, "rss", Key_openai_news) = None
    /\ AllLines # <<>>

\* Some chunk of snk holds the line text in full.
Delivered(snk, text) == \E c \in 1..Len(snk) : Contains(snk[c], text)

\* C3 (as stated): a run in which every fetcher returns what it returned
\* in the run before produces no notification line and posts nothing.
C3_SecondRunSilent ==
    replay.on => (notifications = NoNotifications /\ sink = <<>>)

\* C3, where the code keeps it: the same after a run that reached
\* save_state.
C3_SecondRunSilentAfterSave ==
    (replay.on /\ replay.ended = "done")
        => (notifications = NoNotifications /\ sink = <<>>)

\* C4 (as stated): with no change in the real world since the run before,
\* no notification line that Discord accepted in the run before is accepted
\* by Discord again in this run.
C4_NoLineDeliveredTwice ==
    replay.on =>
        \A n \in 1..Len(AllLines) :
            ~(Delivered(replay.sink, AllLines[n])
                /\ Delivered(sink, AllLines[n]))

\* C5 (as stated): a run that ends in a delivery failure has saved its
\* state: save_state was called and state.json holds the in-memory state.
C5_SavedOnDeliveryFailure ==
    pc = "failed" => (saves = 1 /\ file = save_state(state))

\* C6 (as stated): a run without the webhook that has returned has fetched
\* every source and has saved its state to state.json.
C6_NoWebhookStillSaves ==
    (pc = "done" /\ ~webhook)
        => (Detected /\ saves = 1 /\ file = save_state(state))

\* C7 (as stated): every run that has ended successfully has called
\* save_state exactly once.
C7_SuccessSavesOnce == pc = "done" => saves = 1

\* C7, where the code keeps it: every run with the webhook set that has
\* ended successfully has called save_state exactly once, and state.json
\* holds the in-memory state.
C7_SuccessWithWebhookSavesOnce ==
    (pc = "done" /\ webhook) => (saves = 1 /\ file = save_state(state))

\* The loaded state and no line, taken through the loops of lines 107-140
\* with the answers of this run, from the p-th package, g-th release and
\* r-th feed answer on.  With onlyPresent, a source whose answer is absent
\* is left out, as if it were not configured.
RECURSIVE DetectNpm(_, _, _)
DetectNpm(acc, p, onlyPresent) ==
    IF p > Len(fetched.npm) THEN acc
    ELSE IF onlyPresent /\ ~fetched.npm[p].some
    THEN DetectNpm(acc, p + 1, onlyPresent)
    ELSE DetectNpm(check_npm(acc.state, acc.notifications,
                             NPM_PACKAGES[p], fetched.npm[p]),
                   p + 1, onlyPresent)

RECURSIVE DetectGithub(_, _, _)
DetectGithub(acc, g, onlyPresent) ==
    IF g > Len(fetched.github) THEN acc
    ELSE IF onlyPresent /\ ~fetched.github[g].some
    THEN DetectGithub(acc, g + 1, onlyPresent)
    ELSE DetectGithub(check_github(acc.state, acc.notifications,
                                   GITHUB_RELEASES[g].label,
                                   fetched.github[g]),
                      g + 1, onlyPresent)

RECURSIVE DetectRss(_, _, _)
DetectRss(acc, r, onlyPresent) ==
    IF r > Len(fetched.rss) THEN acc
    ELSE IF onlyPresent /\ ~fetched.rss[r].some
    THEN DetectRss(acc, r + 1, onlyPresent)
    ELSE DetectRss(check_rss(acc.state, acc.notifications, fetched.rss[r]),
                   r + 1, onlyPresent)

Expected(onlyPresent) ==
    DetectRss(
        DetectGithub(
            DetectNpm(Same(loaded, NoNotifications), 1, onlyPresent),
            1, onlyPresent),
        1, onlyPresent)

\* The content discord_post is given for the buckets n; nothing when they
\* are empty.
ContentFor(n) ==
    IF final_blocks(n) = <<>> THEN <<>> ELSE Message(final_blocks(n))

\* What this run has posted and has yet to post, end to end.
Posting == Join(sink \o chunks, <<>>)

Assembled == pc \in {"post", "save", "done", "failed"} /\ webhook

\* C8: whichever fetches are absent, the in-memory state and the buckets
\* are those of the same run over the other sources alone, the content
\* handed to Discord is the message of those buckets, and the run is only
\* ever ended early by a delivery failure.
C8_AbsentSourcesDoNotDisturbOthers ==
    LET others == Expected(TRUE) IN
    /\ state = others.state
    /\ notifications = others.notifications
    /\ Assembled => Posting = ContentFor(others.notifications)
    /\ pc = "failed" => (Detected /\ chunks # <<>>)

\* A finished run in which the fetch of @openai/codex and the feed were
\* absent, @anthropic-ai/claude-code changed, and Discord accepted the
\* message with its line.
C8_Witness ==
    /\ pc = "done"
    /\ webhook
    /\ ~fetched.npm[1].some
    /\ ~fetched.rss[1].some
    /\ fetched.npm[2] = Some(Ver_1)
    /\ MarkerIn(loaded, "npm", Pkg_claude_code) = None
    /\ MarkerIn(state, "npm", Pkg_claude_code) = Some(Ver_1)
    /\ Delivered(sink, NpmMsg(Pkg_claude_code, Ver_1))
    /\ file = save_state(state)

\* C9: at every point of a run and for every source, the in-memory marker
\* of the source differs from the loaded one exactly when the run holds a
\* notification line for the source.
C9_MutationIffLine ==
    /\ \A p \in 1..Len(NPM_PACKAGES) :
        (MarkerIn(state, "npm", NPM_PACKAGES[p])
            # MarkerIn(loaded, "npm", NPM_PACKAGES[p]))
        <=> CountLines(NpmPrefix(p)) > 0
    /\ \A g \in 1..Len(GITHUB_RELEASES) :
        (MarkerIn(state, "github", GITHUB_RELEASES[g].label)
            # MarkerIn(loaded, "github", GITHUB_RELEASES[g].label))
        <=> CountLines(GithubPrefix(g)) > 0
    /\ (MarkerIn(state, "rss", Key_openai_news)
            # MarkerIn(loaded, "rss", Key_openai_news))
        <=> CountLines(RssPrefix) > 0

\* In the middle of a run: @openai/codex was overwritten and has its line,
\* @anthropic-ai/claude-code was fetched unchanged and has none.
C9_Witness ==
    /\ pc = "github"
    /\ MarkerIn(loaded, "npm", Pkg_codex) = Some(Ver_1)
    /\ MarkerIn(state, "npm", Pkg_codex) = Some(Ver_2)
    /\ HasLine(NpmMsg(Pkg_codex, Ver_2))
    /\ fetched.npm[2] = Some(Ver_1)
    /\ MarkerIn(state, "npm", Pkg_claude_code) = Some(Ver_1)
    /\ CountLines(NpmPrefix(2)) = 0

\* The place of a line's source in the configured order: the packages, then
\* the releases, then the feed.
SourceIndex(line) ==
    IF \E p \in 1..Len(NPM_PACKAGES) : StartsWith(line, NpmPrefix(p))
    THEN CHOOSE p \in 1..Len(NPM_PACKAGES) : StartsWith(line, NpmPrefix(p))
    ELSE IF \E g \in 1..Len(GITHUB_RELEASES) :
                StartsWith(line, GithubPrefix(g))
    THEN Len(NPM_PACKAGES)
         + (CHOOSE g \in 1..Len(GITHUB_RELEASES) :
                StartsWith(line, GithubPrefix(g)))
    ELSE Len(NPM_PACKAGES) + Len(GITHUB_RELEASES) + 1

InDiscoveryOrder(bucket) ==
    \A a, b \in 1..Len(bucket) :
        a < b => SourceIndex(bucket[a]) < SourceIndex(bucket[b])

\* C10: the releases are fetched after every package and the feed after
\* every release; in every bucket the lines stand in the configured order
\* of their sources; and the content handed to Discord is the message of
\* the loaded state and the answers of the run, taken in that order.
C10_FixedOrder ==
    /\ Len(fetched.github) > 0 => Len(fetched.npm) = Len(NPM_PACKAGES)
    /\ Len(fetched.rss) > 0 => Len(fetched.github) = Len(GITHUB_RELEASES)
    /\ InDiscoveryOrder(notifications.OpenAI)
    /\ InDiscoveryOrder(notifications.Anthropic)
    /\ InDiscoveryOrder(notifications.Other)
    /\ Assembled => Posting = ContentFor(Expected(FALSE).notifications)

\* A run whose OpenAI bucket holds the lines of @openai/codex, of the
\* release and of the feed, in that order, and whose message is cut.
C10_Witness ==
    /\ Assembled
    /\ Len(notifications.OpenAI) = 3
    /\ notifications.OpenAI[1] = NpmMsg(Pkg_codex, Ver_1)
    /\ StartsWith(notifications.OpenAI[2], GithubPrefix(1))
    /\ StartsWith(notifications.OpenAI[3], RssPrefix)
    /\ Len(notifications.Anthropic) = 1
    /\ Posting # <<>>

\* The upper-case form of a letter.
UpperChar(c) ==
    IF \E n \in 1..Len(LowerCase) : LowerCase[n] = c
    THEN UpperCase[CHOOSE n \in 1..Len(LowerCase) : LowerCase[n] = c]
    ELSE c

\* The keyword kw stands in s, in any mix of upper and lower case.
ContainsAnyCase(s, kw) ==
    \E n \in 1..(Len(s) - Len(kw) + 1) :
        \A j \in 1..Len(kw) : s[n + j - 1] \in {kw[j], UpperChar(kw[j])}

\* The bucket the claim names for a text and a source name.
BucketOf(text, source_name) ==
    LET both == text \o source_name IN
    IF ContainsAnyCase(both, Kw_openai) THEN "OpenAI"
    ELSE IF ContainsAnyCase(both, Kw_anthropic)
            \/ ContainsAnyCase(both, Kw_claude) THEN "Anthropic"
    ELSE "Other"

\* C11: whatever the buckets hold, add_notification appends the text to
\* exactly one bucket and leaves the two others as they are: to OpenAI
\* when text + source name holds "openai" in any case, else to Anthropic
\* when it holds "anthropic" or "claude" in any case, else to Other; a
\* text with both "openai" and "claude" goes to OpenAI.
C11_CategorizeByPrecedence ==
    pc = "categorize" =>
        \A text \in CatTexts, source_name \in CatNames :
            LET after == add_notification(notifications, text, source_name)
                b == BucketOf(text, source_name)
            IN /\ DOMAIN after = {"OpenAI", "Anthropic", "Other"}
               /\ after[b] = Append(notifications[b], text)
               /\ \A o \in DOMAIN after \ {b} : after[o] = notifications[o]
               /\ (ContainsAnyCase(text \o source_name, Kw_openai)
                   /\ ContainsAnyCase(text \o source_name, Kw_claude))
                      => b = "OpenAI"

\* The text with "Claude" and "OpenAI" was filed under OpenAI, a text in
\* upper case under Anthropic and a text without keyword under Other.
C11_Witness ==
    /\ notifications.OpenAI = <<Text_both>>
    /\ notifications.Anthropic = <<Text_CLAUDE>>
    /\ notifications.Other = <<Text_plain>>

\* The section of a bucket: nothing for an empty bucket, else the header
\* and the bodies in their order.
Section(header, bodies) ==
    IF bodies = <<>> THEN <<>> ELSE <<header>> \o bodies

NonEmpty(x) == x # <<>>

\* The sections of the non-empty buckets in the order OpenAI, Anthropic,
\* Other.
Sections ==
    SelectSeq(<<Section(HeaderOpenAI, notifications.OpenAI),
                Section(HeaderAnthropic, notifications.Anthropic),
                Section(HeaderOther, notifications.Other)>>, NonEmpty)

Spacers == Cardinality({n \in 1..Len(blocks) : blocks[n] = <<>>})

\* C12: for every content of the buckets the assembled list of blocks is
\* the sections of the non-empty buckets, in the order OpenAI, Anthropic,
\* Other, each the header followed by the bodies of the bucket, with
\* exactly one empty block between two consecutive sections; an empty
\* bucket has no section and the list never ends with the empty block.
C12_SectionsInOrder ==
    pc \in {"post", "save"} =>
        /\ blocks = Join(Sections, << <<>> >>)
        /\ Spacers = IF Sections = <<>> THEN 0 ELSE Len(Sections) - 1
        /\ blocks # <<>> => blocks[Len(blocks)] # <<>>
        /\ blocks = <<>> <=> Sections = <<>>

\* Three non-empty buckets were assembled, with two spacers.
C12_Witness ==
    /\ pc = "post"
    /\ notifications.OpenAI # <<>>
    /\ notifications.Anthropic # <<>>
    /\ notifications.Other # <<>>
    /\ Spacers = 2

\* C13: discord_post cuts the content into chunks of at most 1900
\* characters each, none empty and every one but the last of exactly 1900,
\* whose concatenation in order is the content (5000 characters give
\* chunks of 1900, 1900 and 1200), and Discord receives them in that
\* order: the k-th chunk sent is the k-th stretch of the content.
C13_ChunksCoverContent ==
    pc \in {"post", "save", "failed"} =>
        LET all == sink \o chunks IN
        /\ Join(all, <<>>) = content
        /\ \A c \in 1..Len(all) :
            /\ Len(all[c]) \in 1..CHUNK
            /\ c < Len(all) => Len(all[c]) = CHUNK
        /\ Len(content) = 5000 =>
            [c \in 1..Len(all) |-> Len(all[c])] = <<1900, 1900, 1200>>
        /\ \A c \in 1..Len(sink) :
            sink[c] = SubSeq(content, (c - 1) * CHUNK + 1,
                             Min(c * CHUNK, Len(content)))

\* A content of 5000 characters was delivered in its three chunks.
C13_Witness ==
    /\ Len(content) = 5000
    /\ pc = "save"
    /\ Len(sink) = 3
    /\ Len(sink[3]) = 1200

\* C14: when Discord answers chunk k with a failure the run ends there
\* with the error: the chunks before k stay delivered, chunk k and the
\* chunks after it are never delivered, and the run takes no further step
\* (it does not reach its successful end); the next step is a new process.
C14_DeliveryFailureEndsRun ==
    [][/\ (pc = "post" /\ pc' = "failed") =>
            (sink' = sink /\ chunks' = chunks)
       /\ pc = "failed" =>
            /\ chunks # <<>>
            /\ sink \o chunks = discord_chunks(content)
            /\ pc' = "idle" /\ sink' = <<>>
            /\ file' = file]_vars

\* Chunk 2 of two failed after chunk 1 was delivered.
C14_Witness ==
    /\ pc = "failed"
    /\ Len(sink) = 1
    /\ Len(chunks) = 1

\* The run found state.json unreadable.
Unreadable == file.exists /\ ~file.ok /\ pc # "idle"

\* C15 (as stated): a run that finds state.json unreadable ends with the
\* exception of load_state and nothing else: no fetcher was called,
\* nothing was delivered, save_state was not called and state.json is
\* what it was.
C15_UnreadableFileIsFatal ==
    Unreadable =>
        /\ pc = "raised"
        /\ fetched = NoFetched
        /\ state = EmptyDict
        /\ sink = <<>> /\ content = <<>>
        /\ saves = 0
        /\ file = TruncatedFile

\* The same for the runs with the webhook set (holds).
C15_UnreadableFileIsFatalWithWebhook ==
    (Unreadable /\ webhook) =>
        /\ pc = "raised"
        /\ fetched = NoFetched
        /\ state = EmptyDict
        /\ sink = <<>> /\ content = <<>>
        /\ saves = 0
        /\ file = TruncatedFile

\* C16: when the process is killed in save_state, state.json is absent
\* or a readable document, and it holds the state the run loaded or the
\* state the run was saving: never an empty or cut document that the next
\* run cannot load.
C16_SaveIsAtomic ==
    pc = "killed" =>
        /\ file.exists => file.ok
        /\ load_state(file) \in {loaded, state}

\* C17: once the sources are processed, discord_post is called if and
\* only if the run holds at least one notification line; with no line
\* nothing is sent; and what is sent, chunk after chunk, is the banner
\* line, an empty line and the assembled blocks, one per line.
C17_MessageIffLines ==
    pc \in {"post", "save", "done", "failed"} =>
        /\ content # <<>> <=> AllLines # <<>>
        /\ AllLines = <<>> => (sink = <<>> /\ chunks = <<>>)
        /\ content # <<>> =>
            /\ sink \o chunks = discord_chunks(content)
            /\ Len(sink) + Len(chunks) >= 1
            /\ Posting = Banner \o Join(blocks, <<"\n">>)
            /\ SubSeq(Banner, Len(Banner) - 1, Len(Banner)) = <<"\n", "\n">>
            /\ \A n \in 1..(Len(Banner) - 2) : Banner[n] # "\n"
            /\ blocks # <<>>

\* A run with lines has sent its message in two chunks.
C17_Witness ==
    /\ pc = "done"
    /\ AllLines # <<>>
    /\ Len(sink) = 2

\* The three mappings, from str to str.
ThreeMappings(d) ==
    /\ DOMAIN d = {"npm", "github", "rss"}
    /\ \A c \in DOMAIN d : \A k \in DOMAIN d[c] :
        k \in Seq(STRING) /\ d[c][k] \in Seq(STRING)

\* C18: starting from no state.json or from one with the three mappings
\* npm, github and rss, after any runs state.json (when there is one) is a
\* readable document with exactly these three mappings from str to str,
\* and so is the state of a run; and load_state on the file a run has
\* saved returns the state the run saved.
C18_LayoutAndRoundTrip ==
    /\ file.exists => (file.ok /\ ThreeMappings(load_state(file)))
    /\ pc \in {"npm", "github", "rss", "assemble", "post", "save", "done",
               "failed"} /\ webhook => ThreeMappings(state)
    /\ (pc = "done" /\ saves = 1) => load_state(file) = state

\* A run has saved a state whose keys and markers hold a backslash, a
\* quote, a newline and a tab.
C18_Witness ==
    /\ pc = "done" /\ saves = 1
    /\ MarkerIn(state, "npm", Pkg_codex) = Some(Marker_backslash)
    /\ MarkerIn(state, "npm", Key_stale) = Some(Ver_1)
    /\ MarkerIn(state, "github", Label_codex) = Some(Marker_quote)
    /\ MarkerIn(state, "rss", Key_openai_news) = Some(Marker_newline)
    /\ file = StoredFile

\* C19: save_state is called only once the delivery is over, with no
\* message needed or every chunk delivered; until then state.json holds
\* what the run loaded, and a run whose delivery failed leaves it so: no
\* marker of an undelivered notification is persisted.  The next run,
\* given the same answers of the services, detects the same changes again.
C19_SaveOnlyAfterDelivery ==
    /\ saves > 0 => (chunks = <<>> /\ Posting = content)
    /\ (webhook /\ pc \notin {"idle", "raised"} /\ saves = 0) =>
            load_state(file) = loaded
    /\ pc = "failed" => saves = 0
    /\ (replay.on /\ replay.ended = "failed" /\ Detected) =>
            (notifications = replay.notifications /\ AllLines # <<>>)

\* After a run whose second chunk failed, the next run has detected the
\* same lines, delivered both chunks and saved.
C19_Witness ==
    /\ replay.on /\ replay.ended = "failed"
    /\ Len(replay.sink) = 1
    /\ pc = "done" /\ saves = 1
    /\ Len(sink) = 2
    /\ notifications = replay.notifications

\* No marker of the state dict st is the empty str.
NoEmptyMarker(st) ==
    \A c \in DOMAIN st : \A k \in DOMAIN st[c] : st[c][k] # <<>>

\* C20: a fetch that returns the empty str as its marker is treated as an
\* absent one: the in-memory marker of the source is the loaded one and
\* the run holds no line for the source.  So when no loaded marker is
\* empty, no marker of a run and no marker of state.json is empty.
C20_EmptyMarkerIsSkipped ==
    /\ \A p \in 1..Len(fetched.npm) :
        fetched.npm[p] = Some(<<>>)
            => /\ MarkerIn(state, "npm", NPM_PACKAGES[p])
                      = MarkerIn(loaded, "npm", NPM_PACKAGES[p])
               /\ CountLines(NpmPrefix(p)) = 0
    /\ \A g \in 1..Len(fetched.github) :
        (fetched.github[g].some /\ fetched.github[g].tag = <<>>)
            => /\ MarkerIn(state, "github", GITHUB_RELEASES[g].label)
                      = MarkerIn(loaded, "github", GITHUB_RELEASES[g].label)
               /\ CountLines(GithubPrefix(g)) = 0
    /\ \A r \in 1..Len(fetched.rss) :
        (fetched.rss[r].some /\ fetched.rss[r].id = <<>>)
            => /\ MarkerIn(state, "rss", Key_openai_news)
                      = MarkerIn(loaded, "rss", Key_openai_news)
               /\ CountLines(RssPrefix) = 0
    /\ NoEmptyMarker(loaded) => NoEmptyMarker(state)
    /\ (file.exists /\ file.ok) => NoEmptyMarker(load_state(file))

\* A run has saved after every fetcher returned an empty marker, 1.0.0
\* being stored for @openai/codex, while @anthropic-ai/claude-code changed.
C20_Witness ==
    /\ pc = "done" /\ saves = 1
    /\ fetched.npm[1] = Some(<<>>)
    /\ fetched.github[1].some /\ fetched.github[1].tag = <<>>
    /\ fetched.rss[1].some /\ fetched.rss[1].id = <<>>
    /\ MarkerIn(loaded, "npm", Pkg_codex) = Some(Ver_1)
    /\ MarkerIn(state, "npm", Pkg_codex) = Some(Ver_1)
    /\ MarkerIn(state, "github", Label_codex) = None
    /\ fetched.npm[2] = Some(Ver_2)
    /\ MarkerIn(state, "npm", Pkg_claude_code) = Some(Ver_2)

====
